---- MODULE Spec2Model ----
(***************************************************************************)
(* Model of sap.adt (src/sap/adt/__init__.py): the Connection with its     *)
(* lazily created HTTP session, and the lock / unlock / activate / create  *)
(* / change_text / text protocol of an ADTObject.                          *)
(*                                                                         *)
(* Python values are represented as follows.                               *)
(*   - an optional value is a sequence: None is <<>>, a value v is <<v>>;  *)
(*   - a dict is a function from its keys (the empty dict is <<>>);        *)
(*   - a response text, an error message and a Content-Type value are      *)
(*     sequences of tokens, so that "contains" and the regular expression  *)
(*     of lock() are computed and not assumed;                             *)
(*   - a raised exception is a record, NoExc when the call returned.       *)
(***************************************************************************)
EXTENDS Integers, Sequences, FiniteSets, TLC

VARIABLES
    _session,   \* Connection._session: None or the requests.Session (its headers)
    wire,       \* the requests handed to session.send, in order
    _lock,      \* ADTObject._lock of each object instance
    cls,        \* the class of the object instances
    call,       \* the last method called and the instance it was called on
    raised,     \* the exception the last call raised (NoExc: it returned)
    returned,   \* the value the last call returned
    received,   \* the responses the server gave during the last call, in order
    held,       \* history: the last successful lock() has no successful unlock() after it
    scn,        \* history: how far the last calls are lock(), change_text(), unlock(),
                \* each returning; where on the wire they began; the answer to the LOCK
    _metadata,  \* ADTObject._metadata of each object instance: its ADTCoreData
    args        \* the arguments of the last call

vars == <<_session, wire, _lock, cls, call, raised, returned, received, held, scn,
          _metadata, args>>

\* ------------------------------------------------------------------ bounds

\* the number of requests a behaviour sends
MaxWire == 4

\* the number of tokens of a LOCK answer body that is matched on its own
MaxText == 6

\* ----------------------------------------------------------- Python values

None == <<>>

Some(v) == <<v>>

EmptyDict == <<>>

\* s contains t as a contiguous subsequence (Python: t in s)
Contains(s, t) ==
    \E i \in 0..(Len(s) - Len(t)) : SubSeq(s, i + 1, i + Len(t)) = t

NoExc == [type |-> "None", message |-> <<>>, request |-> None, response |-> None]

SAPCliError(message) ==
    [type |-> "SAPCliError", message |-> message, request |-> None, response |-> None]

HTTPRequestError(req, res) ==
    [type |-> "HTTPRequestError", message |-> <<>>, request |-> Some(req), response |-> Some(res)]

KeyError(key) ==
    [type |-> "KeyError", message |-> <<key>>, request |-> None, response |-> None]

TypeError ==
    [type |-> "TypeError", message |-> <<"'NoneType' object is not subscriptable">>,
     request |-> None, response |-> None]

ReturnNone == [type |-> "None", value |-> None]

ReturnResponse(res) == [type |-> "Response", value |-> Some(res)]

ReturnStr(s) == [type |-> "str", value |-> Some(s)]

\* ---------------------------------------------------------- the environment

LH_OPEN == "<LOCK_HANDLE>"

LH_CLOSE == "</LOCK_HANDLE>"

NL == "\n"

\* the response bodies the server answers with
Texts ==
    { <<>>,
      <<"x">>,
      <<LH_OPEN, "A", LH_CLOSE>>,
      <<"x", LH_OPEN, "B", LH_CLOSE, "x">>,
      <<"x", NL, LH_OPEN, "A", LH_CLOSE>>,
      <<LH_OPEN, "A", LH_CLOSE, LH_OPEN, "B", LH_CLOSE>> }

LOCK_RESULT_MARKER == "dataname=com.sap.adt.lock.Result"

ContentTypes ==
    { <<"application/xml">>,
      <<"application/vnd.sap.as+xml;charset=UTF-8;", LOCK_RESULT_MARKER>> }

Statuses == {200, 400}

CsrfTokens == {"T1"}

Response(status_code, headers, text) ==
    [status_code |-> status_code, headers |-> headers, text |-> text]

\* the answers to the discovery GET
DiscoveryResponses ==
    { Response(s, h, <<>>) :
        s \in Statuses,
        h \in {EmptyDict} \cup { ("x-csrf-token" :> t) : t \in CsrfTokens } }

\* the answers to the requests of the objects: every accepted answer, and one
\* refused answer per status
Responses ==
    { Response(s, h, t) :
        s \in {c \in Statuses : c < 400},
        h \in {EmptyDict} \cup { ("Content-Type" :> c) : c \in ContentTypes },
        t \in Texts }
    \cup
    { Response(s, ("Content-Type" :> <<"application/xml">>), <<"x">>) :
        s \in {c \in Statuses : c >= 400} }

\* the source texts and the correction numbers the caller passes
Contents == {"REPORT ZFOO."}

Corrnrs == {None, Some("NPLK000001")}

\* --------------------------------------------------------------- Connection

host == "h"

client == "001"

ssl == TRUE

port == IF ssl THEN "443" ELSE "80"

protocol == IF ssl THEN "https" ELSE "http"

_adt_uri == "sap/bc/adt"

_base_url == protocol \o "://" \o host \o ":" \o port \o "/" \o _adt_uri

_query_args == "sap-client=" \o client \o "&saml2=disabled"

_build_adt_url(adt_uri) == _base_url \o "/" \o adt_uri \o "?" \o _query_args

\* session.prepare_request: the headers of the request over those of the session
Request(session, method, url, params, headers, body) ==
    [method |-> method, url |-> url, params |-> params,
     headers |-> headers @@ session.headers, body |-> body]

\* as _execute_with_session, but a status of exactly 400 is let through
_execute_with_session_above_400(session, method, url, params, headers, body, res) ==
    LET req == Request(session, method, url, params, headers, body)
    IN  [sent     |-> <<req>>,
         got      |-> <<res>>,
         raised   |-> IF res.status_code > 400 THEN HTTPRequestError(req, res) ELSE NoExc,
         response |-> IF res.status_code > 400 THEN None ELSE Some(res)]

\* sends the request once; res is the server's answer to it
_execute_with_session(session, method, url, params, headers, body, res) ==
    LET req == Request(session, method, url, params, headers, body)
    IN  [sent     |-> <<req>>,
         got      |-> <<res>>,
         raised   |-> IF res.status_code >= 400 THEN HTTPRequestError(req, res) ELSE NoExc,
         response |-> IF res.status_code >= 400 THEN None ELSE Some(res)]

\* as _get_session, but without the test that finds the session already there
_get_session_every_time(dres) ==
    LET created == [headers |-> EmptyDict]
        r == _execute_with_session(created, "GET", _build_adt_url("core/discovery"),
                                   None, ("x-csrf-token" :> "Fetch"), None, dres)
    IN  IF r.raised /= NoExc
        THEN [session |-> Some(created), sent |-> r.sent, got |-> r.got, raised |-> r.raised]
        ELSE IF "x-csrf-token" \notin DOMAIN dres.headers
        THEN [session |-> Some(created), sent |-> r.sent, got |-> r.got,
              raised |-> KeyError("x-csrf-token")]
        ELSE [session |-> Some([headers |-> ("x-csrf-token" :> dres.headers["x-csrf-token"])
                                              @@ created.headers]),
              sent |-> r.sent, got |-> r.got, raised |-> NoExc]

\* dres is the server's answer to the discovery GET, should it be sent
_get_session(dres) ==
    IF _session = None
    THEN LET created == [headers |-> EmptyDict]
             r == _execute_with_session(created, "GET", _build_adt_url("core/discovery"),
                                        None, ("x-csrf-token" :> "Fetch"), None, dres)
         IN  IF r.raised /= NoExc
             THEN [session |-> Some(created), sent |-> r.sent, got |-> r.got,
                   raised |-> r.raised]
             ELSE IF "x-csrf-token" \notin DOMAIN dres.headers
             THEN [session |-> Some(created), sent |-> r.sent, got |-> r.got,
                   raised |-> KeyError("x-csrf-token")]
             ELSE [session |-> Some([headers |-> ("x-csrf-token" :> dres.headers["x-csrf-token"])
                                                   @@ created.headers]),
                   sent |-> r.sent, got |-> r.got, raised |-> NoExc]
    ELSE [session |-> _session, sent |-> <<>>, got |-> <<>>, raised |-> NoExc]

execute(method, adt_uri, params, headers, body, dres, res) ==
    LET gs == _get_session(dres)
    IN  IF gs.raised /= NoExc
        THEN [session |-> gs.session, sent |-> gs.sent, got |-> gs.got,
              raised |-> gs.raised, response |-> None]
        ELSE LET r == _execute_with_session(gs.session[1], method, _build_adt_url(adt_uri),
                                            params, headers, body, res)
             IN  [session |-> gs.session, sent |-> gs.sent \o r.sent,
                  got |-> gs.got \o r.got, raised |-> r.raised, response |-> r.response]

\* a method that fails before it calls execute() leaves the Connection alone
NoCall == [session |-> _session, sent |-> <<>>, got |-> <<>>]

LOCK_ACCESS_MODE_MODIFY == "MODIFY"

lock_params(access_mode) == [_action |-> "LOCK", accessMode |-> access_mode]

\* as unlock_params, but the handle is left out
unlock_params_without_handle(lock_handle) == [_action |-> "UNLOCK", lockHandle |-> None]

unlock_params(lock_handle) == [_action |-> "UNLOCK", lockHandle |-> lock_handle]

activation_params == [method |-> "activate", preauditRequested |-> "true"]

\* as create_params, but the correction number is left out
create_params_without_corrnr(corrnr) == None

create_params(corrnr) == IF corrnr = None THEN None ELSE [corrnr |-> corrnr[1]]

\* ------------------------------------------------------------ ADTObjectType

ADTObjectType(code, basepath, xmlnamespace, mimetype, typeuris, xmlname) ==
    [code |-> code, basepath |-> basepath, xmlnamespace |-> xmlnamespace,
     mimetype |-> mimetype, typeuris |-> typeuris, xmlname |-> xmlname]

Program_OBJTYPE ==
    ADTObjectType("PROG/P", "programs/programs",
                  <<"program", "http://www.sap.com/adt/programs/programs">>,
                  "application/vnd.sap.adt.programs.programs.v2+xml",
                  ("text/plain" :> "source/main"), "abapProgram")

Class_OBJTYPE ==
    ADTObjectType("CLAS/OC", "oo/classes",
                  <<"class", "http://www.sap.com/adt/oo/classes">>,
                  "application/vnd.sap.adt.oo.classes.v2+xml",
                  ("text/plain" :> "source/main"), "abapClass")

Package_OBJTYPE ==
    ADTObjectType("DEVC/K", "packages",
                  <<"pak", "http://www.sap.com/adt/packages">>,
                  "application/vnd.sap.adt.packages.v1+xml",
                  EmptyDict, "package")

Classes == {"Program", "Class", "Package"}

OBJTYPE(c) ==
    CASE c = "Program" -> Program_OBJTYPE
      [] c = "Class"   -> Class_OBJTYPE
      [] c = "Package" -> Package_OBJTYPE

\* as get_uri_for_type, but without the '/' in front of the suffix
get_uri_for_type_bare(type, mimetype) ==
    IF mimetype \in DOMAIN type.typeuris
    THEN [raised |-> NoExc, value |-> type.typeuris[mimetype]]
    ELSE [raised |-> SAPCliError(<<"Object {type} does not support plain 'text' format">>),
          value |-> ""]

get_uri_for_type(type, mimetype) ==
    IF mimetype \in DOMAIN type.typeuris
    THEN [raised |-> NoExc, value |-> "/" \o type.typeuris[mimetype]]
    ELSE [raised |-> SAPCliError(<<"Object {type} does not support plain 'text' format">>),
          value |-> ""]

\* ------------------------------------------------------ OrderedClassMembers

\* the names a class body binds, in the order of the source; the interpreter binds
\* __module__ and __qualname__ first and, in a class whose methods name super,
\* __classcell__ last
ADTObject_body ==
    <<"__module__", "__qualname__", "__doc__", "__init__", "coredata", "connection",
      "objtype", "package", "description", "description", "language", "name",
      "master_language", "master_system", "responsible", "uri", "text", "reference",
      "create", "lock", "unlock", "activate">>

Program_body ==
    <<"__module__", "__qualname__", "__doc__", "OBJTYPE", "__init__", "active",
      "change_text", "__classcell__">>

Class_body ==
    <<"__module__", "__qualname__", "__doc__", "OBJTYPE", "SuperClass", "Include",
      "__init__", "final", "visibility", "include", "super_class", "change_text",
      "__classcell__">>

Package_body ==
    <<"__module__", "__qualname__", "__doc__", "OBJTYPE", "SuperPackage",
      "SoftwareComponent", "ApplicationComponent", "Attributes", "Transport",
      "__init__", "active", "attributes", "super_package", "app_component",
      "transport", "translation", "use_accesses", "package_interfaces",
      "sub_packages", "set_package_type", "set_software_component",
      "set_transport_layer", "set_app_component", "__classcell__">>

body(c) ==
    CASE c = "ADTObject" -> ADTObject_body
      [] c = "Program"   -> Program_body
      [] c = "Class"     -> Class_body
      [] c = "Package"   -> Package_body

\* class Program(ADTObject), class Class(ADTObject), class Package(ADTObject)
bases(c) == IF c = "ADTObject" THEN <<>> ELSE <<"ADTObject">>

\* the keys of the collections.OrderedDict that __prepare__ hands to the class
\* body: a name bound again keeps its first place
classdict_keys(b) ==
    LET k[i \in 0..Len(b)] ==
            IF i = 0 THEN <<>>
            ELSE IF \E j \in 1..(i - 1) : b[j] = b[i] THEN k[i - 1]
            ELSE Append(k[i - 1], b[i])
    IN  k[Len(b)]

NotDunderModule(key) == key \notin {"__module__", "__qualname__"}

\* as OrderedClassMembers__new__, but the members of the parent come last
OrderedClassMembers__new__parent_last(parent__ordered__, classdict) ==
    SelectSeq(classdict, NotDunderModule) \o parent__ordered__

\* OrderedClassMembers.__new__: the value of classdict['__ordered__'];
\* parent__ordered__ is empty for a class without bases
OrderedClassMembers__new__(parent__ordered__, classdict) ==
    parent__ordered__ \o SelectSeq(classdict, NotDunderModule)

RECURSIVE __ordered__(_)
__ordered__(c) ==
    OrderedClassMembers__new__(
        IF bases(c) = <<>> THEN <<>> ELSE __ordered__(bases(c)[Len(bases(c))]),
        classdict_keys(body(c)))

\* @xml_attribute(name) and @xml_element(name) on the members of the classes
xml_attribute(xmlname) == [kind |-> "attribute", name |-> xmlname]

xml_element(xmlname) == [kind |-> "element", name |-> xmlname]

ADTObject_xml ==
    [description     |-> xml_attribute("adtcore:description"),
     language        |-> xml_attribute("adtcore:language"),
     name            |-> xml_attribute("adtcore:name"),
     master_language |-> xml_attribute("adtcore:masterLanguage"),
     master_system   |-> xml_attribute("adtcore:masterSystem"),
     responsible     |-> xml_attribute("adtcore:responsible"),
     reference       |-> xml_element("adtcore:packageRef")]

Program_xml == [active |-> xml_attribute("adtcore:version")]

Class_xml ==
    [final       |-> xml_attribute("class:final"),
     visibility  |-> xml_attribute("class:visibility"),
     include     |-> xml_element("class:include"),
     super_class |-> xml_element("class:superClassRef")]

Package_xml ==
    [active             |-> xml_attribute("adtcore:version"),
     attributes         |-> xml_element("pak:attributes"),
     super_package      |-> xml_element("pak:superPackage"),
     app_component      |-> xml_element("pak:applicationComponent"),
     transport          |-> xml_element("pak:transport"),
     translation        |-> xml_element("pak:translation"),
     use_accesses       |-> xml_element("pak:useAccesses"),
     package_interfaces |-> xml_element("pak:packageInterfaces"),
     sub_packages       |-> xml_element("pak:subPackages")]

\* the annotated members an object of class c has: its own and the inherited ones
xml(c) ==
    CASE c = "ADTObject" -> ADTObject_xml
      [] c = "Program"   -> Program_xml @@ ADTObject_xml
      [] c = "Class"     -> Class_xml @@ ADTObject_xml
      [] c = "Package"   -> Package_xml @@ ADTObject_xml

\* the XML names of one kind that marshalling writes for an object of class c:
\* it walks __ordered__ and takes the members annotated with that kind
xml_names(c, kind) ==
    LET ord == __ordered__(c)
        n[i \in 0..Len(ord)] ==
            IF i = 0 THEN <<>>
            ELSE IF ord[i] \in DOMAIN xml(c) /\ xml(c)[ord[i]].kind = kind
            THEN Append(n[i - 1], xml(c)[ord[i]].name)
            ELSE n[i - 1]
    IN  n[Len(ord)]

\* -------------------------------------------------------------- ADTCoreData

\* ADTCoreData.Reference(name)
Reference(name_) == [_name |-> name_]

ADTCoreData(package_, description, language, master_language, master_system, responsible, package_reference) ==
    [_package |-> package_, _description |-> description, _language |-> language,
     _master_language |-> master_language, _master_system |-> master_system,
     _responsible |-> responsible, _package_reference |-> Reference(package_reference)]

\* the package names and descriptions a caller works with
Packages == {None, Some("$TMP"), Some("ZPKG")}

Descriptions == {None, Some("Say hello")}

\* the Core Metadata a caller may hand to a constructor: none, or an ADTCoreData
Metadatas ==
    {None} \cup {Some(ADTCoreData(p, d, None, None, None, None, r)) :
                     p \in Packages, d \in Descriptions, r \in Packages}

\* ---------------------------------------------------------------- ADTObject

Instances == {1, 2}

\* both instances name the same repository object
name == "ZFOO"

\* ADTObject.__init__: the Core Metadata of the new object
ADTObject__init__(metadata) ==
    IF metadata /= None THEN metadata[1]
    ELSE ADTCoreData(None, None, None, None, None, None, None)

\* Program.__init__: self._metadata.package_reference.name = package
Program__init__(package, metadata) ==
    [ADTObject__init__(metadata) EXCEPT !._package_reference._name = package]

\* Class.__init__; its self._superclass is a part of the XML document only
Class__init__(package, metadata) ==
    [ADTObject__init__(metadata) EXCEPT !._package_reference._name = package]

\* Package.__init__ takes no package; its further fields are parts of the XML
\* document only
Package__init__(metadata) ==
    [ADTObject__init__(metadata) EXCEPT !._package_reference._name = Some(name)]

\* the Core Metadata of a new object of class c
__init__(c, a) ==
    CASE c = "Program" -> Program__init__(a.package, a.metadata)
      [] c = "Class"   -> Class__init__(a.package, a.metadata)
      [] c = "Package" -> Package__init__(a.metadata)

\* ADTObject.package
package(o) == _metadata[o]._package

\* ADTObject.reference
reference(o) == _metadata[o]._package_reference

lower(s) == CASE s = "ZFOO" -> "zfoo"

upper(s) == CASE s = "ZFOO" -> "ZFOO"

objtype == OBJTYPE(cls)

uri == objtype.basepath \o "/" \o lower(name)

\* the text up to its first line break: '.' matches no line break
FirstLine(text) ==
    LET breaks == {k \in 1..Len(text) : text[k] = NL}
    IN  IF breaks = {} THEN text
        ELSE SubSeq(text, 1, (CHOOSE k \in breaks : \A l \in breaks : k <= l) - 1)

\* as re_match, but the '.*' in front of the opening tag takes as little as it
\* can: the opening tag is the first one of the line
re_match_first(text) ==
    LET line   == FirstLine(text)
        opens  == {i \in 1..Len(line) : line[i] = LH_OPEN}
        open   == CHOOSE i \in opens : \A l \in opens : i <= l
        closes == {j \in 1..Len(line) : line[j] = LH_CLOSE /\ open < j}
        first  == CHOOSE j \in closes : \A l \in closes : j <= l
    IN  IF opens = {} THEN None
        ELSE IF closes = {} THEN None
        ELSE Some(SubSeq(line, open + 1, first - 1))

\* re.match('.*<LOCK_HANDLE>(.*)</LOCK_HANDLE>.*', text): None, or group 1 of the
\* match. Both '.*' before the closing tag are greedy: the closing tag is the last
\* one of the first line and the opening tag the last one before it.
re_match(text) ==
    LET line   == FirstLine(text)
        closes == {j \in 1..Len(line) : line[j] = LH_CLOSE}
        last   == CHOOSE j \in closes : \A l \in closes : l <= j
        opens  == {i \in 1..Len(line) : line[i] = LH_OPEN /\ i < last}
        open   == CHOOSE i \in opens : \A l \in opens : l <= i
    IN  IF closes = {} THEN None
        ELSE IF opens = {} THEN None
        ELSE Some(SubSeq(line, open + 1, last - 1))

NoScn == [step |-> 0, start |-> 0, text |-> <<>>]

\* a call without arguments
NoArgs == <<>>

\* the end of every method: the state it leaves and what the caller sees of it;
\* e is what its use of the Connection did
Done(op, o, exc, ret, e, lck) ==
    /\ Len(wire) + Len(e.sent) <= MaxWire
    /\ _session' = e.session
    /\ wire' = wire \o e.sent
    /\ _lock' = lck
    /\ call' = [op |-> op, obj |-> o]
    /\ raised' = exc
    /\ returned' = ret
    /\ received' = e.got
    /\ held' = [held EXCEPT ![o] = IF exc /= NoExc THEN @
                                   ELSE IF op = "lock" THEN TRUE
                                   ELSE IF op = "unlock" THEN FALSE
                                   ELSE @]
    /\ scn' = IF exc = NoExc /\ op = "lock"
              THEN [step |-> 1, start |-> Len(wire), text |-> e.got[Len(e.got)].text]
              ELSE IF exc = NoExc /\ op = "change_text" /\ scn.step = 1
              THEN [scn EXCEPT !.step = 2]
              ELSE IF exc = NoExc /\ op = "unlock" /\ scn.step = 2
              THEN [scn EXCEPT !.step = 3]
              ELSE NoScn
    /\ UNCHANGED <<cls, _metadata>>

\* the discovery GET is answered only when it is sent, and a request is answered
\* only while the behaviour may still send one
DiscoveryAnswers ==
    IF Len(wire) >= MaxWire THEN {}
    ELSE IF _session = None THEN DiscoveryResponses
    ELSE {Response(200, EmptyDict, <<>>)}

LockAccept ==
    "application/vnd.sap.as+xml;charset=UTF-8;dataname=com.sap.adt.lock.result;q=0.8"
    \o ", " \o
    "application/vnd.sap.as+xml;charset=UTF-8;dataname=com.sap.adt.lock.result2;q=0.9"

LockHeaders == ("X-sap-adt-sessiontype" :> "stateful") @@ ("Accept" :> LockAccept)

\* as already_locked, but the lock of any instance counts
already_locked_any(o) == \E i \in Instances : _lock[i] /= None

\* as already_locked, but the test is missing
already_locked_unchecked(o) == FALSE

\* if self._lock is not None
already_locked(o) == _lock[o] /= None

lock(o) ==
    /\ args' = NoArgs
    /\ IF already_locked(o)
       THEN Done("lock", o, SAPCliError(<<"Object " \o uri \o ": already locked">>),
                 ReturnNone, NoCall, _lock)
       ELSE \E dres \in DiscoveryAnswers, res \in Responses :
              LET e == execute("POST", uri, lock_params(LOCK_ACCESS_MODE_MODIFY),
                               LockHeaders, None, dres, res)
                  resp == e.response[1]
              IN  IF e.raised /= NoExc
                  THEN Done("lock", o, e.raised, ReturnNone, e, _lock)
                  ELSE IF "Content-Type" \notin DOMAIN resp.headers
                  THEN Done("lock", o, KeyError("Content-Type"), ReturnNone, e, _lock)
                  ELSE IF ~Contains(resp.headers["Content-Type"], <<LOCK_RESULT_MARKER>>)
                  THEN Done("lock", o,
                            SAPCliError(<<"Object " \o uri
                                          \o ": lock response does not have lock result\n">>
                                        \o resp.text),
                            ReturnNone, e, _lock)
                  ELSE IF re_match(resp.text) = None
                  THEN Done("lock", o, TypeError, ReturnNone, e, _lock)
                  ELSE Done("lock", o, NoExc, ReturnNone, e,
                            [_lock EXCEPT ![o] = Some(re_match(resp.text)[1])])

UnlockHeaders == ("X-sap-adt-sessiontype" :> "stateful")

\* as not_locked, but the test is missing
not_locked_unchecked(o) == FALSE

\* if self._lock is None
not_locked(o) == _lock[o] = None

\* as released, but the token is kept
released_forgotten(o) == _lock

\* self._lock = None
released(o) == [_lock EXCEPT ![o] = None]

\* as unlock, but the token is cleared before the UNLOCK request is sent
unlock_clearing_first(o) ==
    /\ args' = NoArgs
    /\ IF not_locked(o)
       THEN Done("unlock", o, SAPCliError(<<"Object " \o uri \o ": not locked">>),
                 ReturnNone, NoCall, _lock)
       ELSE \E dres \in DiscoveryAnswers, res \in Responses :
              LET e == execute("POST", uri, unlock_params(_lock[o]),
                               UnlockHeaders, None, dres, res)
              IN  Done("unlock", o, e.raised, ReturnNone, e, released(o))

unlock(o) ==
    /\ args' = NoArgs
    /\ IF not_locked(o)
       THEN Done("unlock", o, SAPCliError(<<"Object " \o uri \o ": not locked">>),
                 ReturnNone, NoCall, _lock)
       ELSE \E dres \in DiscoveryAnswers, res \in Responses :
              LET e == execute("POST", uri, unlock_params(_lock[o]),
                               UnlockHeaders, None, dres, res)
              IN  IF e.raised /= NoExc
                  THEN Done("unlock", o, e.raised, ReturnNone, e, _lock)
                  ELSE Done("unlock", o, NoExc, ReturnNone, e, released(o))

\* sap.adt.marshalling.Marshal().serialize(self): the root element of the document
serialize(o) ==
    "<" \o objtype.xmlnamespace[1] \o ":" \o objtype.xmlname
        \o " adtcore:name=\"" \o name \o "\"/>"

create(o, corrnr) ==
    /\ args' = [corrnr |-> corrnr]
    /\ \E dres \in DiscoveryAnswers, res \in Responses :
           LET e == execute("POST", objtype.basepath, create_params(corrnr),
                            ("Content-Type" :> objtype.mimetype), Some(serialize(o)), dres, res)
           IN  IF e.raised /= NoExc
               THEN Done("create", o, e.raised, ReturnNone, e, _lock)
               ELSE Done("create", o, NoExc, ReturnResponse(e.response[1]), e, _lock)

ActivationRequest ==
    "<?xml version=\"1.0\" encoding=\"UTF-8\"?>\n"
    \o "<adtcore:objectReferences xmlns:adtcore=\"http://www.sap.com/adt/core\">\n"
    \o "<adtcore:objectReference adtcore:uri=\"/" \o _adt_uri \o "/" \o uri
    \o "\" adtcore:name=\"" \o upper(name) \o "\"/>\n"
    \o "</adtcore:objectReferences>"

ActivationHeaders ==
    ("Accept" :> "application/xml") @@ ("Content-Type" :> "application/xml")

\* as activation_failed, but the body is not looked at
activation_failed_ignored(resp) == FALSE

\* if resp.text
activation_failed(resp) == resp.text /= <<>>

\* as activate, but a successful activation gives up the lock
activate_releasing(o) ==
    /\ args' = NoArgs
    /\ \E dres \in DiscoveryAnswers, res \in Responses :
           LET e == execute("POST", "activation", activation_params,
                            ActivationHeaders, Some(ActivationRequest), dres, res)
               resp == e.response[1]
           IN  IF e.raised /= NoExc
               THEN Done("activate", o, e.raised, ReturnNone, e, _lock)
               ELSE IF activation_failed(resp)
               THEN Done("activate", o,
                         SAPCliError(<<"Could not activate the object " \o name \o ": ">>
                                     \o resp.text),
                         ReturnNone, e, _lock)
               ELSE Done("activate", o, NoExc, ReturnNone, e, released(o))

activate(o) ==
    /\ args' = NoArgs
    /\ \E dres \in DiscoveryAnswers, res \in Responses :
           LET e == execute("POST", "activation", activation_params,
                            ActivationHeaders, Some(ActivationRequest), dres, res)
               resp == e.response[1]
           IN  IF e.raised /= NoExc
               THEN Done("activate", o, e.raised, ReturnNone, e, _lock)
               ELSE IF activation_failed(resp)
               THEN Done("activate", o,
                         SAPCliError(<<"Could not activate the object " \o name \o ": ">>
                                     \o resp.text),
                         ReturnNone, e, _lock)
               ELSE Done("activate", o, NoExc, ReturnNone, e, _lock)

ChangeTextHeaders ==
    IF cls = "Class"
    THEN ("Accept" :> "text/plain") @@ ("Content-Type" :> "text/plain; charset=utf-8")
    ELSE ("Content-Type" :> "text/plain; charset=utf-8")

\* as change_text, but an object that is not locked is refused
change_text_locked_only(o, content) ==
    /\ cls \in {"Program", "Class"}
    /\ args' = [content |-> content]
    /\ LET text_uri == get_uri_for_type(objtype, "text/plain")
       IN  IF not_locked(o)
           THEN Done("change_text", o, SAPCliError(<<"Object " \o uri \o ": not locked">>),
                     ReturnNone, NoCall, _lock)
           ELSE \E dres \in DiscoveryAnswers, res \in Responses :
                  LET e == execute("PUT", uri \o text_uri.value, [lockHandle |-> _lock[o]],
                                   ChangeTextHeaders, Some(content), dres, res)
                  IN  Done("change_text", o, e.raised, ReturnNone, e, _lock)

\* Program.change_text and Class.change_text; a Package has no such method
change_text(o, content) ==
    /\ cls \in {"Program", "Class"}
    /\ args' = [content |-> content]
    /\ LET text_uri == get_uri_for_type(objtype, "text/plain")
       IN  IF text_uri.raised /= NoExc
           THEN Done("change_text", o, text_uri.raised, ReturnNone, NoCall, _lock)
           ELSE \E dres \in DiscoveryAnswers, res \in Responses :
                  LET e == execute("PUT", uri \o text_uri.value, [lockHandle |-> _lock[o]],
                                   ChangeTextHeaders, Some(content), dres, res)
                  IN  Done("change_text", o, e.raised, ReturnNone, e, _lock)

\* as get_text, but the request asks for any content type
get_text_any(relativeuri, dres, res) ==
    LET e == execute("GET", relativeuri, None, ("Accept" :> "*/*"), None, dres, res)
    IN  [session |-> e.session, sent |-> e.sent, got |-> e.got, raised |-> e.raised,
         value |-> IF e.raised /= NoExc THEN ReturnNone ELSE ReturnStr(e.response[1].text)]

get_text(relativeuri, dres, res) ==
    LET e == execute("GET", relativeuri, None, ("Accept" :> "text/plain"), None, dres, res)
    IN  [session |-> e.session, sent |-> e.sent, got |-> e.got, raised |-> e.raised,
         value |-> IF e.raised /= NoExc THEN ReturnNone ELSE ReturnStr(e.response[1].text)]

\* reading the property ADTObject.text
text(o) ==
    /\ args' = NoArgs
    /\ LET text_uri == get_uri_for_type(objtype, "text/plain")
       IN  IF text_uri.raised /= NoExc
           THEN Done("text", o, text_uri.raised, ReturnNone, NoCall, _lock)
           ELSE \E dres \in DiscoveryAnswers, res \in Responses :
                  LET g == get_text(uri \o text_uri.value, dres, res)
                  IN  Done("text", o, g.raised, g.value, g, _lock)

\* the MIME types a caller asks an object type about
MimeTypes == {"text/plain", "text/html", "application/xml"}

\* a call of self.objtype.get_uri_for_type(mimetype) on its own
objtype_get_uri_for_type(o, mimetype) ==
    /\ args' = [mimetype |-> mimetype]
    /\ LET r == get_uri_for_type(objtype, mimetype)
       IN  Done("get_uri_for_type", o, r.raised,
                IF r.raised = NoExc THEN ReturnStr(r.value) ELSE ReturnNone,
                NoCall, _lock)

\* the setter of the property ADTObject.description
description_setter(o, value) ==
    /\ _metadata' = [_metadata EXCEPT ![o]._description = value]
    /\ call' = [op |-> "description.setter", obj |-> o]
    /\ args' = [value |-> value]
    /\ raised' = NoExc
    /\ returned' = ReturnNone
    /\ received' = <<>>
    /\ scn' = NoScn
    /\ UNCHANGED <<_session, wire, _lock, cls, held>>

\* the words a LOCK answer body is made of
Tokens == {LH_OPEN, LH_CLOSE, NL, "A", "B"}

\* every body of at most MaxText tokens
Bodies == UNION {[1..n -> Tokens] : n \in 0..MaxText}

\* the last statement of lock(), self._lock = re.match(...)[1], on its own: taken
\* when execute() has handed lock() an accepted answer with the marker
store_lock_handle(o) ==
    /\ call = [op |-> "execute", obj |-> o]
    /\ args' = NoArgs
    /\ LET resp == received[Len(received)]
           e    == [session |-> _session, sent |-> <<>>, got |-> received]
       IN  IF re_match(resp.text) = None
           THEN Done("lock", o, TypeError, ReturnNone, e, _lock)
           ELSE Done("lock", o, NoExc, ReturnNone, e,
                     [_lock EXCEPT ![o] = Some(re_match(resp.text)[1])])

\* ------------------------------------------------------------ specification

\* Program(connection, name): the arguments left at their defaults
DefaultArgs == [package |-> None, metadata |-> None]

\* the state after Connection(...) and the construction of the object instances,
\* which are of one of the given classes and built from one of the given arguments
InitWith(classes, ctorargs) ==
    /\ _session = None
    /\ wire = <<>>
    /\ _lock = [o \in Instances |-> None]
    /\ cls \in classes
    /\ call = [op |-> "__init__", obj |-> 1]
    /\ raised = NoExc
    /\ returned = ReturnNone
    /\ received = <<>>
    /\ held = [o \in Instances |-> FALSE]
    /\ scn = NoScn
    /\ args \in ctorargs
    /\ _metadata = [o \in Instances |-> __init__(cls, args)]

InitOf(classes) == InitWith(classes, {DefaultArgs})

Init == InitOf({"Program"})

\* the calls of a client that works with one object instance
Next ==
    \/ lock(1)
    \/ unlock(1)
    \/ \E corrnr \in Corrnrs : create(1, corrnr)
    \/ activate(1)
    \/ \E content \in Contents : change_text(1, content)
    \/ text(1)

Spec == Init /\ [][Next]_vars

\* the arguments a caller may give to the constructor of a kind; Package.__init__
\* has no parameter package
CtorArgs == [package : Packages, metadata : Metadatas]

\* objects of every kind, built from every choice of arguments
InitObjects ==
    /\ InitWith(Classes, CtorArgs)
    /\ cls = "Package" => args.package = None

\* the calls of a client that looks at what it has built
NextObjects ==
    \/ \E mimetype \in MimeTypes : objtype_get_uri_for_type(1, mimetype)
    \/ \E value \in Descriptions : description_setter(1, value)

SpecObjects == InitObjects /\ [][NextObjects]_vars

\* lock() of a new Program at the point where its first execute() has returned:
\* the session is set up, and the LOCK request has an accepted answer with the
\* marker and one of the bodies
InitMatch ==
    /\ cls = "Program"
    /\ _session = Some([headers |-> ("x-csrf-token" :> "T1")])
    /\ wire = <<Request([headers |-> EmptyDict], "GET", _build_adt_url("core/discovery"),
                        None, ("x-csrf-token" :> "Fetch"), None),
                Request(_session[1], "POST", _build_adt_url(uri),
                        lock_params(LOCK_ACCESS_MODE_MODIFY), LockHeaders, None)>>
    /\ received \in
          {<<Response(200, ("x-csrf-token" :> "T1"), <<>>),
             Response(200, ("Content-Type" :> <<"application/vnd.sap.as+xml;charset=UTF-8;",
                                                 LOCK_RESULT_MARKER>>), b)>> : b \in Bodies}
    /\ _lock = [o \in Instances |-> None]
    /\ call = [op |-> "execute", obj |-> 1]
    /\ raised = NoExc
    /\ returned = ReturnNone
    /\ held = [o \in Instances |-> FALSE]
    /\ scn = NoScn
    /\ args = NoArgs
    /\ _metadata = [o \in Instances |-> __init__(cls, DefaultArgs)]

\* the handle that lock() takes from the body
NextMatch == store_lock_handle(1)

SpecMatch == InitMatch /\ [][NextMatch]_vars

\* the calls of a client that locks, reads and writes the source text of an object
\* of any kind
InitKinds == InitOf(Classes)

NextKinds ==
    \/ lock(1)
    \/ \E content \in Contents : change_text(1, content)
    \/ text(1)

SpecKinds == InitKinds /\ [][NextKinds]_vars

\* the calls of a client that works with two object instances for one remote
\* object on one Connection
InitTwo == InitOf({"Program"})

NextTwo ==
    \/ \E o \in Instances : lock(o)
    \/ \E o \in Instances : unlock(o)

SpecTwo == InitTwo /\ [][NextTwo]_vars

\* --------------------------------------------------- what the claims speak of

Last(s) == s[Len(s)]

IsDiscovery(req) == req.method = "GET" /\ req.url = _build_adt_url("core/discovery")

NotDiscovery(req) == ~IsDiscovery(req)

\* the requests a step sends
Sent == SubSeq(wire', Len(wire) + 1, Len(wire'))

\* the step is a call of op that got as far as sending the request of op itself;
\* Answer is then the server's response to that request
Requested(op) == call'.op = op /\ Len(wire') > Len(wire) /\ NotDiscovery(Last(wire'))

Answer == Last(received')

HasLockResultMarker(res) ==
    /\ "Content-Type" \in DOMAIN res.headers
    /\ \E k \in 1..Len(res.headers["Content-Type"]) :
           res.headers["Content-Type"][k] = "dataname=com.sap.adt.lock.Result"

\* the handles H for which the text contains <LOCK_HANDLE>H</LOCK_HANDLE>
Elements(t) ==
    { SubSeq(t, i + 1, j - 1) :
        <<i, j>> \in { p \in (1..Len(t)) \X (1..Len(t)) :
                         /\ p[1] < p[2]
                         /\ t[p[1]] = "<LOCK_HANDLE>"
                         /\ t[p[2]] = "</LOCK_HANDLE>"
                         /\ \A k \in (p[1] + 1)..(p[2] - 1) :
                                t[k] \notin {"<LOCK_HANDLE>", "</LOCK_HANDLE>"} } }

\* an accepted answer to LOCK of the shape the server gives: the marker in the
\* Content-Type, and a one-line body with one LOCK_HANDLE element
WellFormedLockResponse(res) ==
    /\ res.status_code < 400
    /\ HasLockResultMarker(res)
    /\ Cardinality(Elements(res.text)) = 1
    /\ \A k \in 1..Len(res.text) : res.text[k] /= "\n"

TheHandle(res) == CHOOSE h \in Elements(res.text) : TRUE

\* ------------------------------------------------------------------ claims

\* C1: after any sequence of calls on an object, each succeeding or failing, its
\* lock token is set if and only if its last successful lock() has no successful
\* unlock() after it; only a successful lock() sets the token and only a
\* successful unlock() clears it.
C1_TokenFollowsLockAndUnlock ==
    [][ \A o \in Instances :
          /\ (_lock'[o] /= None) <=> held'[o]
          /\ (_lock[o] = None /\ _lock'[o] /= None)
                => (call' = [op |-> "lock", obj |-> o] /\ raised'.type = "None")
          /\ (_lock[o] /= None /\ _lock'[o] = None)
                => (call' = [op |-> "unlock", obj |-> o] /\ raised'.type = "None")
          /\ (_lock[o] /= None /\ _lock'[o] /= None) => _lock'[o] = _lock[o] ]_vars

\* a failed unlock() after a successful lock(): the token is still set
C1_Witness ==
    /\ call = [op |-> "unlock", obj |-> 1]
    /\ raised.type = "HTTPRequestError"
    /\ held[1]
    /\ _lock[1] /= None

\* C2: lock() on an object whose token is set fails with SAPCliError, sends
\* nothing (no LOCK request, no session bootstrap) and leaves the token as it is.
C2_LockOfLockedIsLocal ==
    [][ \A o \in Instances :
          (call' = [op |-> "lock", obj |-> o] /\ _lock[o] /= None)
             => /\ raised'.type = "SAPCliError"
                /\ wire' = wire
                /\ received' = <<>>
                /\ _session' = _session
                /\ _lock' = _lock ]_vars

\* lock() has been refused on a locked object
C2_Witness ==
    /\ call = [op |-> "lock", obj |-> 1]
    /\ raised.type = "SAPCliError"
    /\ _lock[1] /= None

\* C3: unlock() on an object whose token is absent fails with SAPCliError, sends
\* nothing, and the token stays absent.
C3_UnlockOfUnlockedIsLocal ==
    [][ \A o \in Instances :
          (call' = [op |-> "unlock", obj |-> o] /\ _lock[o] = None)
             => /\ raised'.type = "SAPCliError"
                /\ wire' = wire
                /\ received' = <<>>
                /\ _session' = _session
                /\ _lock'[o] = None ]_vars

\* unlock() has been refused on an unlocked object that was locked before
C3_Witness ==
    /\ call = [op |-> "unlock", obj |-> 1]
    /\ raised.type = "SAPCliError"
    /\ _lock[1] = None
    /\ \E k \in 1..Len(wire) : wire[k].params = [_action |-> "LOCK", accessMode |-> "MODIFY"]

\* C4: in consecutive lock(); unlock() cycles every unlock() that returns leaves the
\* token absent, and the lock() that follows it sends its LOCK request and, when
\* the answer is well formed, returns and stores the handle of that answer.
C4_Cycles ==
    [][ \A o \in Instances :
          /\ (call' = [op |-> "unlock", obj |-> o] /\ raised'.type = "None")
                => _lock'[o] = None
          /\ (/\ call = [op |-> "unlock", obj |-> o] /\ raised.type = "None"
              /\ call' = [op |-> "lock", obj |-> o])
                => /\ Requested("lock")
                   /\ WellFormedLockResponse(Answer)
                         => /\ raised'.type = "None"
                            /\ _lock'[o] = <<TheHandle(Answer)>> ]_vars

\* the second cycle has stored a handle that differs from the one of the first
C4_Witness ==
    /\ call = [op |-> "lock", obj |-> 1]
    /\ raised.type = "None"
    /\ Len(wire) = 4
    /\ wire[3].params = [_action |-> "UNLOCK", lockHandle |-> <<<<"A">>>>]
    /\ _lock[1] = <<<<"B">>>>

\* C5: an accepted answer to LOCK whose Content-Type header does not contain the
\* marker makes lock() fail with SAPCliError, the body in the message, and the
\* token stays unset.
C5_NoMarkerIsSAPCliError ==
    [][ \A o \in Instances :
          (/\ call'.obj = o /\ Requested("lock")
           /\ Answer.status_code < 400
           /\ ~HasLockResultMarker(Answer))
             => /\ raised'.type = "SAPCliError"
                /\ Contains(raised'.message, Answer.text)
                /\ _lock'[o] = None ]_vars

\* C6: an accepted answer to LOCK with the marker, whose body contains
\* <LOCK_HANDLE>H</LOCK_HANDLE> anywhere (one such element), makes lock() return
\* and store exactly H.
C6_HandleAnywhere ==
    [][ \A o \in Instances :
          (/\ call'.obj = o /\ Requested("lock")
           /\ Answer.status_code < 400
           /\ HasLockResultMarker(Answer)
           /\ Cardinality(Elements(Answer.text)) = 1)
             => /\ raised'.type = "None"
                /\ _lock'[o] = <<TheHandle(Answer)>> ]_vars

\* C7: activate() sends one POST to 'activation' with method=activate and
\* preauditRequested=true (after the session bootstrap, if that is still due);
\* when that POST is accepted, an empty body makes activate() return silently and
\* a non-empty body makes it raise SAPCliError with the body in the message.
C7_Activate ==
    [][ call'.op = "activate" =>
          LET posts == SelectSeq(Sent, NotDiscovery)
          IN  /\ Len(posts) <= 1
              /\ Len(Sent) - Len(posts) <= 1
              /\ \A k \in 1..Len(posts) :
                    /\ posts[k].method = "POST"
                    /\ posts[k].url = _base_url \o "/activation?" \o _query_args
                    /\ posts[k].params = [method |-> "activate", preauditRequested |-> "true"]
              /\ (Requested("activate") /\ Answer.status_code < 400)
                    => /\ Len(posts) = 1
                       /\ Answer.text = <<>>
                             => (raised'.type = "None" /\ returned' = ReturnNone)
                       /\ Answer.text /= <<>>
                             => (/\ raised'.type = "SAPCliError"
                                 /\ Contains(raised'.message, Answer.text))
              /\ raised'.type \in {"None", "SAPCliError"}
                    => (Requested("activate") /\ Answer.status_code < 400) ]_vars

\* activate() has failed on a non-empty body
C7_Witness ==
    /\ call.op = "activate"
    /\ raised.type = "SAPCliError"
    /\ received /= <<>>
    /\ Last(received).text /= <<>>

C9_SentOnceAndChecked ==
    [][ /\ Len(received') = Len(Sent)
        /\ \A i, j \in 1..Len(Sent) : i /= j => Sent[i] /= Sent[j]
        /\ \A k \in 1..Len(Sent) :
              IF received'[k].status_code >= 400
              THEN /\ k = Len(Sent)
                   /\ raised'.type = "HTTPRequestError"
                   /\ raised'.request = <<Sent[k]>>
                   /\ raised'.response = <<received'[k]>>
              ELSE /\ k = Len(Sent) => raised'.type /= "HTTPRequestError"
                   /\ (k = Len(Sent) /\ Requested("create"))
                         => returned' = [type |-> "Response", value |-> <<received'[k]>>]
                   /\ (k = Len(Sent) /\ Requested("text"))
                         => returned' = [type |-> "str", value |-> <<received'[k].text>>]
      ]_vars

\* a request other than the discovery GET has been refused
C9_Witness ==
    /\ raised.type = "HTTPRequestError"
    /\ Len(wire) >= 2
    /\ NotDiscovery(Last(wire))
    /\ raised.request = <<Last(wire)>>

\* C10: a Connection creates its session in its first execute(), which sends the
\* discovery GET with x-csrf-token: Fetch ahead of anything else; afterwards the
\* session stays the same one and no other discovery GET is sent.
C10_OneSession ==
    [][ /\ (wire' = <<>>) <=> (_session' = None)
        /\ wire' /= <<>>
              => /\ IsDiscovery(wire'[1])
                 /\ wire'[1].headers = ("x-csrf-token" :> "Fetch")
        /\ \A k \in 2..Len(wire') : NotDiscovery(wire'[k])
        /\ _session /= None => _session' = _session ]_vars

\* three requests have followed the discovery GET on the one session
C10_Witness ==
    /\ Len(wire) = 4
    /\ _session /= None
    /\ \A k \in 2..4 : NotDiscovery(wire[k])

\* C11: in every reachable state of a Connection, whichever earlier calls succeeded
\* or failed, every request other than the discovery GET carries as x-csrf-token
\* a token that a discovery response handed out on that session.
C11_EveryRequestCarriesTheToken ==
    \A k \in 1..Len(wire) :
        NotDiscovery(wire[k])
            => /\ "x-csrf-token" \in DOMAIN wire[k].headers
               /\ wire[k].headers["x-csrf-token"] \in CsrfTokens

\* C12: create(), whether the object is locked or not, sends one POST to the
\* basepath of its kind with the MIME type of the kind as Content-Type and with
\* the query parameter corrnr exactly when a correction number was given; it
\* returns the response; the lock token and the metadata of the object are after
\* the call what they were before it, whether it returns or fails.
C12_Create ==
    [][ call'.op = "create"
          => /\ _lock' = _lock
             /\ _metadata' = _metadata
             /\ Cardinality({k \in 1..Len(Sent) : NotDiscovery(Sent[k])}) <= 1
             /\ Requested("create")
                  => /\ Last(wire').method = "POST"
                     /\ Last(wire').url = _build_adt_url(OBJTYPE(cls).basepath)
                     /\ Last(wire').headers["Content-Type"] = OBJTYPE(cls).mimetype
                     /\ (args'.corrnr = None) <=> (Last(wire').params = None)
                     /\ args'.corrnr /= None
                           => Last(wire').params = [corrnr |-> args'.corrnr[1]]
             /\ raised' = NoExc
                  => /\ Requested("create")
                     /\ returned' = ReturnResponse(Answer) ]_vars

\* create() with a correction number has returned the response on a locked object
C12_Witness ==
    /\ call.op = "create"
    /\ raised = NoExc
    /\ _lock[1] /= None
    /\ args.corrnr /= None
    /\ Last(wire).params = [corrnr |-> "NPLK000001"]
    /\ returned = ReturnResponse(Last(received))

\* C13: for every kind of object and every MIME type asked for,
\* get_uri_for_type(mime) returns '/' followed by the suffix the kind maps the MIME
\* type to, and fails with SAPCliError when the kind maps it to nothing: it returns
\* /source/main for text/plain on a Program and on a Class, and fails for every
\* MIME type on a Package.
C13_UriForType ==
    call.op = "get_uri_for_type"
        => LET typeuris == OBJTYPE(cls).typeuris
               mime     == args.mimetype
           IN  /\ mime \in DOMAIN typeuris
                     => /\ raised = NoExc
                        /\ returned = [type |-> "str", value |-> <<"/" \o typeuris[mime]>>]
               /\ mime \notin DOMAIN typeuris
                     => /\ raised.type = "SAPCliError"
                        /\ returned = ReturnNone
               /\ (cls \in {"Program", "Class"} /\ mime = "text/plain")
                     => returned = [type |-> "str", value |-> <<"/source/main">>]
               /\ cls = "Package" => raised.type = "SAPCliError"

\* a Class has been asked for text/plain and has answered /source/main
C13_Witness ==
    /\ call.op = "get_uri_for_type"
    /\ cls = "Class"
    /\ args.mimetype = "text/plain"
    /\ returned = [type |-> "str", value |-> <<"/source/main">>]

\* the names the source of class c declares, in the order of their first
\* declaration: what the class body binds, less what the interpreter binds
Declares(c) ==
    LET Written(key) == key \notin {"__module__", "__qualname__", "__classcell__"}
    IN  SelectSeq(classdict_keys(body(c)), Written)

\* C14: for every kind (Program, Class, Package) the ordered member registry that
\* marshalling uses lists the members of the base class first, in the order of
\* their declaration, and after them the members the kind declares itself, in the
\* order of their declaration (the interpreter's __classcell__ closes the list);
\* so the XML attributes of a Program come in the order description, language,
\* name, masterLanguage, masterSystem, responsible, version, and its packageRef
\* element comes from the base class.
C14_OrderedMembers ==
    LET ord  == __ordered__(cls)
        base == __ordered__("ADTObject")
        own  == SubSeq(ord, Len(base) + 1, Len(ord))
        Member(key) == key /= "__classcell__"
    IN  /\ Len(ord) > Len(base)
        /\ base = Declares("ADTObject")
        /\ SubSeq(ord, 1, Len(base)) = base
        /\ SelectSeq(own, Member) = Declares(cls)
        /\ cls = "Program"
              => /\ xml_names(cls, "attribute")
                        = <<"adtcore:description", "adtcore:language", "adtcore:name",
                            "adtcore:masterLanguage", "adtcore:masterSystem",
                            "adtcore:responsible", "adtcore:version">>
                 /\ xml_names(cls, "element") = <<"adtcore:packageRef">>
                 /\ \E i \in 1..Len(base) : base[i] = "reference"
                 /\ \A i \in 1..Len(own) : own[i] /= "reference"

\* a Program has been built: its registry ends with what Program declares, and
\* version is the last of its seven XML attributes
C14_Witness ==
    /\ cls = "Program"
    /\ call.op = "__init__"
    /\ Len(__ordered__(cls)) = 25
    /\ __ordered__(cls)[23] = "active"
    /\ xml_names(cls, "attribute")[7] = "adtcore:version"

\* C15: after the construction of a Program or of a Class, whatever package and
\* whatever Core Metadata (none, or the caller's) were given, the name of the
\* Package Reference of the object is the package that its Core Metadata report
\* for it; after the construction of a Package the name of the Package Reference
\* is the name of the package itself.
C15_ReferenceIsThePackage ==
    call.op = "__init__"
        => /\ cls \in {"Program", "Class"} => reference(1)._name = package(1)
           /\ cls = "Package" => reference(1)._name = Some(name)

\* C16: when the UNLOCK request of unlock() is refused (status >= 400), unlock()
\* fails with the HTTP error and the lock token stays what it was, so that a later
\* unlock() sends the same handle again; the token is cleared only by an unlock()
\* whose UNLOCK request was accepted. In the same way a refused LOCK request
\* leaves the token unset.
C16_RefusedKeepsTheToken ==
    [][ /\ Requested("unlock")
              => Last(wire').params = [_action |-> "UNLOCK", lockHandle |-> _lock[1]]
        /\ (Requested("unlock") /\ Answer.status_code >= 400)
              => /\ raised'.type = "HTTPRequestError"
                 /\ raised'.response = <<Answer>>
                 /\ _lock' = _lock
                 /\ _lock'[1] /= None
        /\ (call'.op = "unlock" /\ _lock' /= _lock)
              => /\ Requested("unlock")
                 /\ Answer.status_code < 400
                 /\ raised' = NoExc
                 /\ _lock'[1] = None
        /\ (Requested("lock") /\ Answer.status_code >= 400)
              => /\ raised'.type = "HTTPRequestError"
                 /\ _lock' = _lock
                 /\ _lock'[1] = None ]_vars

\* an UNLOCK request was refused, and the next unlock() has sent the same handle
\* again and released the lock
C16_Witness ==
    /\ Len(wire) = 4
    /\ wire[3].params = [_action |-> "UNLOCK", lockHandle |-> <<<<"A">>>>]
    /\ wire[4] = wire[3]
    /\ call.op = "unlock"
    /\ raised = NoExc
    /\ _lock[1] = None

\* C17: for every accepted answer to LOCK that has the marker in its Content-Type
\* and a body without a <LOCK_HANDLE>...</LOCK_HANDLE> element, lock() fails with
\* SAPCliError, the kind of error of its other local failures, and the lock token
\* stays unset, so that lock() can be called again.
C17_NoHandleIsSAPCliError ==
    [][ (/\ Requested("lock")
         /\ Answer.status_code < 400
         /\ HasLockResultMarker(Answer)
         /\ Elements(Answer.text) = {})
            => /\ raised'.type = "SAPCliError"
               /\ _lock' = _lock
               /\ _lock'[1] = None ]_vars

\* the places <<i, j>> of the elements of a text: an opening tag at i, the next
\* closing tag at j, and no tag between them
Spans(t) ==
    { p \in (1..Len(t)) \X (1..Len(t)) :
        /\ p[1] < p[2]
        /\ t[p[1]] = LH_OPEN
        /\ t[p[2]] = LH_CLOSE
        /\ \A k \in (p[1] + 1)..(p[2] - 1) : t[k] \notin {LH_OPEN, LH_CLOSE} }

Content(t, p) == SubSeq(t, p[1] + 1, p[2] - 1)

FirstSpan(t) == CHOOSE p \in Spans(t) : \A q \in Spans(t) : p[1] <= q[1]

LastSpan(t) == CHOOSE p \in Spans(t) : \A q \in Spans(t) : q[1] <= p[1]

\* every tag of the text belongs to an element
OnlyElements(t) ==
    \A k \in 1..Len(t) :
        t[k] \in {LH_OPEN, LH_CLOSE} => \E p \in Spans(t) : k \in {p[1], p[2]}

\* C18 as stated: when the body of a LOCK answer holds more than one
\* <LOCK_HANDLE>...</LOCK_HANDLE> element, the lock token that is stored is the
\* content of the first of them.
C18_FirstHandle ==
    (call.op = "lock" /\ Cardinality(Spans(Last(received).text)) > 1)
        => /\ raised = NoExc
           /\ _lock[1] = Some(Content(Last(received).text, FirstSpan(Last(received).text)))

\* C18 amended: when the first line of the body of a LOCK answer holds more than
\* one <LOCK_HANDLE>...</LOCK_HANDLE> element and no tag outside of them, the lock
\* token that is stored is the content of the last element of that line.
C18_LastHandleOfFirstLine ==
    LET line == FirstLine(Last(received).text)
    IN  (call.op = "lock" /\ Cardinality(Spans(line)) > 1 /\ OnlyElements(line))
            => /\ raised = NoExc
               /\ _lock[1] = Some(Content(line, LastSpan(line)))

\* a body of two elements with different handles has been matched, and the
\* second handle is the token
C18_Witness ==
    /\ call.op = "lock"
    /\ Last(received).text = <<LH_OPEN, "A", LH_CLOSE, LH_OPEN, "B", LH_CLOSE>>
    /\ _lock[1] = Some(<<"B">>)

\* C19: activate() has no test of the lock: it sends its request whether the
\* object is locked or not, and whatever comes of it (success, a failure for a
\* non-empty body, an HTTP error) the lock token is afterwards what it was.
C19_ActivateKeepsTheToken ==
    [][ call'.op = "activate"
          => /\ _lock' = _lock
             /\ wire' /= wire
             /\ raised'.type = "SAPCliError"
                   => /\ Requested("activate")
                      /\ Answer.status_code < 400
                      /\ Answer.text /= <<>> ]_vars

\* activate() has failed for a non-empty body on a locked object, which is
\* still locked
C19_Witness ==
    /\ call.op = "activate"
    /\ raised.type = "SAPCliError"
    /\ _lock[1] = Some(<<"A">>)
    /\ held[1]

\* C20: change_text() neither tests nor changes the lock token. On a locked
\* Program or Class it sends one PUT with the handle as lockHandle; on one that is
\* not locked it fails with no error of its own and sends the PUT to
\* {uri}/source/main all the same, with no value for lockHandle; the lock state
\* after the call is the lock state before it.
C20_ChangeTextIgnoresTheLock ==
    [][ call'.op = "change_text"
          => /\ cls \in {"Program", "Class"}
             /\ _lock' = _lock
             /\ raised'.type \in {"None", "HTTPRequestError", "KeyError"}
             /\ wire' /= wire
             /\ Cardinality({k \in 1..Len(Sent) : NotDiscovery(Sent[k])}) <= 1
             /\ raised'.type = "KeyError" => ~Requested("change_text")
             /\ Requested("change_text")
                   => /\ Last(wire').method = "PUT"
                      /\ Last(wire').url =
                            _build_adt_url(OBJTYPE(cls).basepath \o "/zfoo/source/main")
                      /\ _lock[1] /= None => Last(wire').params = [lockHandle |-> _lock[1]]
                      /\ _lock[1] = None => Last(wire').params = [lockHandle |-> None] ]_vars

\* change_text() on a Class that is not locked has sent its PUT and returned
C20_Witness ==
    /\ call.op = "change_text"
    /\ cls = "Class"
    /\ raised = NoExc
    /\ _lock[1] = None
    /\ Last(wire).method = "PUT"
    /\ Last(wire).params = [lockHandle |-> None]

\* C21: the Connection has two states. It is established (a session is stored)
\* only after a discovery GET was accepted and its token was stored; when the
\* first execute() fails in the bootstrap (the discovery GET is refused, or its
\* answer has no x-csrf-token header) the Connection stays uninitialized, and the
\* next execute() sends the discovery GET again.
C21_EstablishedOnlyWithToken ==
    [][ /\ _session' /= None
              => /\ "x-csrf-token" \in DOMAIN _session'[1].headers
                 /\ _session'[1].headers["x-csrf-token"] \in CsrfTokens
        /\ (/\ _session = None
            /\ wire' /= wire
            /\ \/ received'[1].status_code >= 400
               \/ "x-csrf-token" \notin DOMAIN received'[1].headers)
              => _session' = None
        /\ (_session = None /\ wire' /= wire) => IsDiscovery(Sent[1]) ]_vars

\* C22: reading the property text of an object of a kind that maps text/plain to
\* nothing (Package) fails with SAPCliError before any request is sent; for a kind
\* that maps it, the reading sends one GET to {uri}{suffix} with Accept:
\* text/plain; in both cases the lock token stays what it was.
C22_Text ==
    [][ call'.op = "text"
          => /\ _lock' = _lock
             /\ cls = "Package"
                   => /\ raised'.type = "SAPCliError"
                      /\ wire' = wire
                      /\ _session' = _session
                      /\ received' = <<>>
             /\ cls \in {"Program", "Class"}
                   => /\ raised'.type /= "SAPCliError"
                      /\ wire' /= wire
                      /\ Cardinality({k \in 1..Len(Sent) : NotDiscovery(Sent[k])}) <= 1
                      /\ raised' = NoExc => Requested("text")
                      /\ Requested("text")
                            => /\ Last(wire').method = "GET"
                               /\ Last(wire').url =
                                     _build_adt_url(OBJTYPE(cls).basepath
                                                    \o "/zfoo/source/main")
                               /\ Last(wire').headers["Accept"] = "text/plain"
                               /\ Last(wire').params = None ]_vars

\* the text of a locked Package has been asked for and refused, and the last
\* request on the wire is still the LOCK request
C22_Witness ==
    /\ call.op = "text"
    /\ cls = "Package"
    /\ raised.type = "SAPCliError"
    /\ received = <<>>
    /\ _lock[1] /= None
    /\ Last(wire).params = [_action |-> "LOCK", accessMode |-> "MODIFY"]

\* C23: the lock state belongs to the object instance. For two instances, even
\* on one Connection and for one remote object, no lock() or unlock() of one
\* instance changes the lock token of the other; the client does not refuse the
\* lock() of an instance because the other one is locked; and the UNLOCK request
\* of an instance carries the handle that this instance obtained, which is the
\* handle of the answer to its own LOCK request.
C23_LockPerInstance ==
    [][ \A o \in Instances :
          call'.obj = o
            => /\ \A i \in Instances \ {o} : _lock'[i] = _lock[i]
               /\ (call'.op = "lock" /\ _lock[o] = None)
                     => /\ wire' /= wire
                        /\ raised'.type = "SAPCliError" => Requested("lock")
               /\ (call'.op = "lock" /\ _lock'[o] /= _lock[o])
                     => /\ Requested("lock")
                        /\ _lock'[o] = re_match(Answer.text)
               /\ (call'.op = "unlock" /\ _lock[o] /= None)
                     => wire' /= wire
               /\ Requested("unlock")
                     => Last(wire').params = [_action |-> "UNLOCK", lockHandle |-> _lock[o]]
      ]_vars

\* both instances were locked, with different handles; the second has sent its
\* own handle in its UNLOCK request and is unlocked, the first is still locked
C23_Witness ==
    /\ call = [op |-> "unlock", obj |-> 2]
    /\ raised = NoExc
    /\ _lock[1] = Some(<<"A">>)
    /\ _lock[2] = None
    /\ Last(wire).params = [_action |-> "UNLOCK", lockHandle |-> <<<<"B">>>>]

\* C24: the client never loses a lock handle. The server grants the lock whenever
\* it accepts a LOCK request (status < 400) and gives it up when it accepts the
\* UNLOCK request; in no reachable state does the server hold a lock that it
\* granted to an object instance while the lock token of that instance is unset.
C24_HandleNeverLost ==
    [][ /\ (Requested("lock") /\ Answer.status_code < 400)
              => _lock'[call'.obj] /= None
        /\ (Requested("unlock") /\ Answer.status_code >= 400)
              => _lock'[call'.obj] /= None ]_vars

====
